---- MODULE Spec2Model ----
(***************************************************************************)
(* The alert notification pipeline of webhook_server.py: the /webhook      *)
(* handler and the three functions it calls, get_live_snapshot,            *)
(* generate_alert_analysis and send_alert_email.                           *)
(*                                                                         *)
(* One request is handled at a time; the handler's position is pc.         *)
(* Text is modelled by string concatenation.  The em dash of the source's  *)
(* format strings is written "--" and the siren emoji "(!)".  Floats are   *)
(* fixed-point integers: prices in cents, percentages in hundredths of a   *)
(* percent.                                                                *)
(***************************************************************************)
EXTENDS Integers, Sequences, FiniteSets, TLC

VARIABLES
    pc,         \* position of the handler: idle, parse, auth, fetch, generate, dispatch, done
    body,       \* the raw body of the request being handled
    data,       \* the value request.get_json returned
    idx,        \* position of get_live_snapshot's loop in the tickers table
    snapshot,   \* the snapshot dict, in insertion order: a sequence of entries
    fetched,    \* instruments whose history and percent change were obtained
    prompt,     \* the prompt handed to the language model
    analysis,   \* the lines of the text generate_alert_analysis returned
    mail,       \* the message the mail server accepted for this request
    outcome,    \* what the language model and the mail transport did
    calls,      \* how often each collaborator was called in this request
    steps,      \* the steps the handler has taken in this request
    responses,  \* the responses produced for this request
    escaped,    \* an exception left the handler
    served,     \* requests received so far
    delivered,  \* messages accepted by the mail server so far
    acked,      \* requests answered 200 so far
    clock,      \* wall clock, in ticks
    rendered,   \* the plain-text bodies of successive renderings of one alert
    frames,     \* concurrent handlers: the local variables of each invocation
    reqs        \* concurrent handlers: position, input and output of each request

vars == <<pc, body, data, idx, snapshot, fetched, prompt, analysis, mail,
          outcome, calls, steps, responses, escaped, served, delivered, acked,
          clock, rendered, frames, reqs>>

\* state that the webhook handler does not touch
aux == <<rendered, frames, reqs>>

\* the state of the sequential handler
handlerVars ==
    <<pc, body, data, idx, snapshot, fetched, prompt, analysis, mail, outcome,
      calls, steps, responses, escaped, served, delivered, acked, clock>>

-----------------------------------------------------------------------------
(* Bounds *)

MaxRequests == 2
MaxClock == 2

-----------------------------------------------------------------------------
(* Configuration, read once from the environment *)

GMAIL_USER == "sender@example.com"
TO_EMAIL == "trader@example.com"
WEBHOOK_SECRET == "mytrading123"

\* the clock advances in steps of half a minute
TicksPerMinute == 2

-----------------------------------------------------------------------------
(* Request bodies *)

FieldNames == {"secret", "ticker", "price", "level_name", "direction", "note"}

FieldValues(k) ==
    CASE k = "secret" -> {WEBHOOK_SECRET, "wrong"}
      [] k = "ticker" -> {"ES1!"}
      [] k = "price" -> {"5412.25"}
      [] k = "level_name" -> {"PDH"}
      [] k = "direction" -> {"reclaimed above"}
      [] k = "note" -> {"Long trigger"}

\* a JSON object holding the fields S
ObjectsOver(S) ==
    { f \in [S -> UNION { FieldValues(k) : k \in S }] :
        \A k \in S : f[k] \in FieldValues(k) }

\* JSON values: null, a list of len items, or an object
JNull == [t |-> "null", len |-> 0, obj |-> <<>>]
JList(n) == [t |-> "list", len |-> n, obj |-> <<>>]
JObject(f) == [t |-> "object", len |-> Cardinality(DOMAIN f), obj |-> f]

JsonValues ==
    {JNull, JList(0), JList(1)}
        \cup { JObject(f) : f \in UNION { ObjectsOver(S) : S \in SUBSET FieldNames } }

\* a body is empty, is not JSON, or is the text of a JSON value
NoValue == JNull
Bodies ==
    { [kind |-> k, value |-> NoValue] : k \in {"empty", "garbage"} }
        \cup { [kind |-> "json", value |-> v] : v \in JsonValues }

TruthyUnlessNull(v) == v.t # "null"

\* Python truthiness of a parsed JSON value
Truthy(v) == v.len > 0

GetNone(d, key, default) == IF key \in DOMAIN d THEN d[key] ELSE "None"

\* dict.get(key, default)
Get(d, key, default) == IF key \in DOMAIN d THEN d[key] ELSE default

\* dict.get(key): the value, or None (the empty option) when key is missing
GetOpt(d, key) == IF key \in DOMAIN d THEN <<d[key]>> ELSE <<>>

\* x or y, on strings
StrOr(x, y) == IF x = "" THEN y ELSE x

-----------------------------------------------------------------------------
(* Number and time formatting *)

Pad2(n) == IF n < 10 THEN "0" \o ToString(n) ELSE ToString(n)
Pad3(n) == IF n < 10 THEN "00" \o ToString(n)
           ELSE IF n < 100 THEN "0" \o ToString(n) ELSE ToString(n)

\* format spec ",": thousands separators, for whole parts below a million
Commas(n) ==
    IF n < 1000 THEN ToString(n)
    ELSE ToString(n \div 1000) \o "," \o Pad3(n % 1000)

Abs(n) == IF n < 0 THEN 0 - n ELSE n

\* f"{price:,.2f}" of a price in cents
FmtPrice(c) == Commas(c \div 100) \o "." \o Pad2(c % 100)

\* f"{pct:+.2f}" of a percentage in hundredths
FmtPct(h) ==
    (IF h < 0 THEN "-" ELSE "+") \o ToString(Abs(h) \div 100) \o "." \o Pad2(Abs(h) % 100)

\* datetime.now(ET).strftime("%I:%M %p ET"): seconds are dropped
NowET(c) == "09:" \o Pad2(30 + (c \div TicksPerMinute)) \o " AM ET"

\* "\n".join(lines) and its counterpart with another separator
RECURSIVE Join(_, _)
Join(lines, sep) ==
    IF lines = <<>> THEN ""
    ELSE IF Len(lines) = 1 THEN lines[1]
    ELSE lines[1] \o sep \o Join(Tail(lines), sep)

-----------------------------------------------------------------------------
(* Market snapshot: get_live_snapshot *)

\* the fixed instrument table, in insertion order
tickers ==
    << [name |-> "ES", sym |-> "ES=F"], [name |-> "YM", sym |-> "YM=F"],
       [name |-> "NQ", sym |-> "NQ=F"], [name |-> "VIX", sym |-> "^VIX"] >>

\* what yf.Ticker(sym).history(...) can do: raise, return an empty frame, or
\* return a series with a first open and a last close (in cents)
Opens == {0, 500000}
Closes == {495000, 505000}
Histories ==
    { [kind |-> k, open |-> 0, close |-> 0] : k \in {"raise", "empty"} }
        \cup { [kind |-> "series", open |-> o, close |-> c] : o \in Opens, c \in Closes }

\* ((price - open_p) / open_p) * 100, in hundredths of a percent; open_p # 0
PctChange(open_p, price) ==
    IF price >= open_p THEN ((price - open_p) * 10000) \div open_p
    ELSE 0 - (((open_p - price) * 10000) \div open_p)

\* does the body of the try block complete for this history?
\* hist.empty skips the entry; a zero open raises ZeroDivisionError, caught
Priced(h) == h.kind = "series" /\ h.open # 0

\* does an error of the loop body leave get_live_snapshot?  The body is
\* wrapped in try / except Exception: pass
Propagates(h) == FALSE

SnapshotStepAborting(snap, name, h) ==
    IF Priced(h)
    THEN Append(snap, [name |-> name, price |-> h.close,
                       pct |-> PctChange(h.open, h.close)])
    ELSE <<>>

\* one iteration of the loop over tickers.items()
SnapshotStep(snap, name, h) ==
    IF Priced(h)
    THEN Append(snap, [name |-> name, price |-> h.close,
                       pct |-> PctChange(h.open, h.close)])
    ELSE snap

Names(snap) == [i \in 1..Len(snap) |-> snap[i].name]

-----------------------------------------------------------------------------
(* Analysis: generate_alert_analysis *)

SnapshotLine(e) ==
    "  " \o e.name \o ": $" \o FmtPrice(e.price)
         \o " (" \o FmtPct(e.pct) \o "% from open)"

SnapshotStrNoPlaceholder(snap) ==
    Join([i \in 1..Len(snap) |-> SnapshotLine(snap[i])], "\n")

SnapshotStr(snap) ==
    StrOr(Join([i \in 1..Len(snap) |-> SnapshotLine(snap[i])], "\n"),
          "  Snapshot unavailable")

\* the prompt f-string, as its literal and interpolated segments
BuildPrompt(d, snap, now) ==
    << "A TradingView price alert just fired for a futures trader at ", now,
       ".\n\nALERT DETAILS:\n  Instrument: ", Get(d, "ticker", "Unknown"),
       "\n  Price: ", Get(d, "price", "Unknown"),
       "\n  Level hit: ", Get(d, "level_name", "key level"),
       "\n  Direction: ", Get(d, "direction", "hit"),
       "\n  Trader's note: ", StrOr(Get(d, "note", ""), "None"),
       "\n\nCURRENT MARKET SNAPSHOT:\n", SnapshotStr(snap),
       "\n\nWrite a sharp, 3-4 sentence alert analysis" >>

\* what client.messages.create(...) followed by content[0].text can do:
\* return a text (as its lines) or raise
AnalysisTexts == { <<"ES reclaimed PDH.", "Watch 5420 next.">>, <<"Hold.">> }
LlmErrors == {"Connection error.", "list index out of range"}
LlmResults ==
    { [kind |-> "text", lines |-> t, msg |-> ""] : t \in AnalysisTexts }
        \cup { [kind |-> "error", lines |-> <<>>, msg |-> m] : m \in LlmErrors }

GenerateResultFallback(r) ==
    IF r.kind = "text"
    THEN [raised |-> FALSE, lines |-> r.lines, msg |-> ""]
    ELSE [raised |-> FALSE, lines |-> <<"Analysis unavailable">>, msg |-> ""]

\* generate_alert_analysis has no fallback text: an error of the call is raised
GenerateResult(r) ==
    IF r.kind = "text"
    THEN [raised |-> FALSE, lines |-> r.lines, msg |-> ""]
    ELSE [raised |-> TRUE, lines |-> <<>>, msg |-> r.msg]

-----------------------------------------------------------------------------
(* Notification: send_alert_email *)

SnapshotRow(e) ==
    "<div><span>" \o e.name \o "</span><span style='color:"
    \o (IF e.pct >= 0 THEN "#00d4a0" ELSE "#ff4d6d") \o "'>$"
    \o FmtPrice(e.price) \o " (" \o FmtPct(e.pct) \o "%)</span></div>"

SnapshotHtml(snap) == Join([i \in 1..Len(snap) |-> SnapshotRow(snap[i])], "")

\* the f-strings below are kept as their literal and interpolated segments
Subject(d, now) ==
    << "(!) ", Get(d, "ticker", "Alert"), " hit ",
       Get(d, "level_name", "Key Level"), " -- ", now >>

PlainText(d, lines, now) ==
    << "ALERT: ", Get(d, "ticker", "Alert"), " hit ",
       Get(d, "level_name", "Key Level"), " at ", Get(d, "price", ""),
       " -- ", now, "\n\n", Join(lines, "\n") >>

\* analysis.replace(chr(10), '<br>') is the join of the lines with <br>
Html(d, lines, snap, now) ==
    << "<div>Alert Triggered</div><h2>", Get(d, "ticker", "Alert"), " -- ",
       Get(d, "level_name", "Key Level"), "</h2><div>", Get(d, "price", ""),
       " . ", now, "</div><div>", Join(lines, "<br>"),
       "</div><div>Live Snapshot</div>", SnapshotHtml(snap),
       "<div>Not financial advice.</div>" >>

Message(d, lines, snap, now) ==
    [subject |-> Subject(d, now), from |-> GMAIL_USER, to |-> TO_EMAIL,
     text |-> PlainText(d, lines, now), html |-> Html(d, lines, snap, now)]

NoMail == [subject |-> <<>>, from |-> "", to |-> "", text |-> <<>>, html |-> <<>>]

\* what the SMTP session can do: fail to connect, refuse the login, refuse
\* the message, accept the message and then fail the QUIT that the with
\* statement sends on exit, or succeed
MailResults ==
    { [kind |-> k, msg |-> m] :
        <<k, m>> \in { <<"connect", "Connection refused">>,
                       <<"login", "Username and Password not accepted">>,
                       <<"send", "Recipient refused">>,
                       <<"quit", "(421, b'Service not available')">> } }
        \cup { [kind |-> "ok", msg |-> ""] }

\* the server has taken the message once sendmail has returned
Accepted(m) == m.kind \in {"quit", "ok"}

SendResultSwallowed(m) == [raised |-> FALSE, msg |-> m.msg]

\* send_alert_email catches nothing: every error of the session is raised
SendResult(m) == [raised |-> m.kind # "ok", msg |-> m.msg]

-----------------------------------------------------------------------------
(* The webhook handler *)

JsonResponse(status, payload) == [status |-> status, json |-> TRUE, body |-> payload]

ErrorBody(msg) == [error |-> msg]
OkBody == [status |-> "ok", message |-> "Alert sent"]

CaughtAfterParse(step) == step \in {"auth", "fetch", "generate", "dispatch"}

\* the steps whose exceptions the handler's try/except covers
Steps == {"parse", "auth", "fetch", "generate", "dispatch"}
Caught(step) == step \in Steps

NoCalls == [fetcher |-> 0, market |-> 0, generator |-> 0, llm |-> 0,
            dispatcher |-> 0, smtp |-> 0]
NoOutcome == [llm |-> "none", llmMsg |-> "", mail |-> "none", mailMsg |-> ""]

AuthorizedInverted(d) == GetOpt(d, "secret") # <<WEBHOOK_SECRET>>

AuthorizedByDefault(d) == Get(d, "secret", WEBHOOK_SECRET) = WEBHOOK_SECRET

\* data.get("secret") != WEBHOOK_SECRET is false
Authorized(d) == GetOpt(d, "secret") = <<WEBHOOK_SECRET>>

AfterFetchFirst(step) ==
    CASE step = "parse" -> "fetch"
      [] step = "fetch" -> "auth"
      [] step = "auth" -> "generate"
      [] step = "generate" -> "dispatch"

AfterGenerateFirst(step) ==
    CASE step = "parse" -> "auth"
      [] step = "auth" -> "generate"
      [] step = "generate" -> "fetch"
      [] step = "fetch" -> "dispatch"

\* the order of the statements of the try block
After(step) ==
    CASE step = "parse" -> "auth"
      [] step = "auth" -> "fetch"
      [] step = "fetch" -> "generate"
      [] step = "generate" -> "dispatch"

\* return jsonify(...), status
Return(status, payload) ==
    /\ responses' = Append(responses, JsonResponse(status, payload))
    /\ acked' = IF status = 200 THEN acked + 1 ELSE acked
    /\ escaped' = escaped
    /\ pc' = "done"

\* an exception raised in a step: except Exception as e turns it into a 500
\* carrying str(e); outside the try it would leave the handler
Raise(step, msg) ==
    IF Caught(step)
    THEN Return(500, ErrorBody(msg))
    ELSE /\ responses' = responses
         /\ acked' = acked
         /\ escaped' = TRUE
         /\ pc' = "done"

\* the step completes and the handler goes on to the next statement
Continue(step) ==
    /\ pc' = After(step)
    /\ UNCHANGED <<responses, escaped, acked>>

Init ==
    /\ pc = "idle"
    /\ body = [kind |-> "empty", value |-> NoValue]
    /\ data = NoValue
    /\ idx = 1
    /\ snapshot = <<>>
    /\ fetched = <<>>
    /\ prompt = <<>>
    /\ analysis = <<>>
    /\ mail = NoMail
    /\ outcome = NoOutcome
    /\ calls = NoCalls
    /\ steps = <<>>
    /\ responses = <<>>
    /\ escaped = FALSE
    /\ served = 0
    /\ delivered = 0
    /\ acked = 0
    /\ clock = 0
    /\ rendered = <<>>
    /\ frames = <<>>
    /\ reqs = <<>>

\* a POST /webhook arrives and the handler is entered
Receive ==
    /\ pc = "idle"
    /\ served < MaxRequests
    /\ \E b \in Bodies : body' = b
    /\ pc' = "parse"
    /\ served' = served + 1
    /\ UNCHANGED <<data, idx, snapshot, fetched, prompt, analysis, mail,
                   outcome, calls, steps, responses, escaped, delivered, acked,
                   clock>>
    /\ UNCHANGED aux

\* the response has gone out; the request and the handler's locals are gone
Complete ==
    /\ pc = "done"
    /\ pc' = "idle"
    /\ body' = [kind |-> "empty", value |-> NoValue]
    /\ data' = NoValue
    /\ idx' = 1
    /\ snapshot' = <<>>
    /\ fetched' = <<>>
    /\ prompt' = <<>>
    /\ analysis' = <<>>
    /\ mail' = NoMail
    /\ outcome' = NoOutcome
    /\ calls' = NoCalls
    /\ steps' = <<>>
    /\ responses' = <<>>
    /\ escaped' = FALSE
    /\ UNCHANGED <<served, delivered, acked, clock>>
    /\ UNCHANGED aux

\* data = request.get_json(force=True); if not data: 400
\* get_json is not silent: on a body that is not JSON it raises BadRequest,
\* which is an Exception and is raised inside the try
Parse ==
    /\ pc = "parse"
    /\ steps' = Append(steps, "parse")
    /\ IF body.kind # "json"
       THEN /\ Raise("parse", "400 Bad Request: The browser (or proxy) sent a request that this server could not understand.")
            /\ data' = data
       ELSE /\ data' = body.value
            /\ IF ~Truthy(body.value)
               THEN Return(400, ErrorBody("No JSON body"))
               ELSE Continue("parse")
    /\ idx' = 1
    /\ UNCHANGED <<body, snapshot, fetched, prompt, analysis, mail,
                   outcome, calls, served, delivered, clock>>
    /\ UNCHANGED aux

\* if data.get("secret") != WEBHOOK_SECRET: 401
\* a truthy value that is not a dict has no get: AttributeError
Auth ==
    /\ pc = "auth"
    /\ steps' = Append(steps, "auth")
    /\ IF data.t # "object"
       THEN Raise("auth", "'list' object has no attribute 'get'")
       ELSE IF ~Authorized(data.obj)
       THEN Return(401, ErrorBody("Unauthorized"))
       ELSE Continue("auth")
    /\ idx' = 1
    /\ UNCHANGED <<body, data, snapshot, fetched, prompt, analysis, mail,
                   outcome, calls, served, delivered, clock>>
    /\ UNCHANGED aux

\* get_live_snapshot: one iteration of its loop; the first one enters the
\* function, the last one returns the snapshot to the handler
FetchInstrument ==
    /\ pc = "fetch"
    /\ idx <= Len(tickers)
    /\ \E h \in Histories :
        /\ snapshot' = SnapshotStep(snapshot, tickers[idx].name, h)
        /\ fetched' = IF h.kind = "series" /\ h.open # 0
                      THEN Append(fetched, tickers[idx].name)
                      ELSE fetched
        /\ IF Propagates(h)
           THEN /\ Raise("fetch", "No data found, symbol may be delisted")
                /\ idx' = 1
           ELSE IF idx = Len(tickers)
           THEN /\ Continue("fetch")
                /\ idx' = 1
           ELSE /\ idx' = idx + 1
                /\ UNCHANGED <<pc, responses, escaped, acked>>
    /\ calls' = [calls EXCEPT !.fetcher = IF idx = 1 THEN @ + 1 ELSE @,
                              !.market = @ + 1]
    /\ steps' = IF idx = 1 THEN Append(steps, "fetch") ELSE steps
    /\ UNCHANGED <<body, data, prompt, analysis, mail, outcome, served,
                   delivered, clock>>
    /\ UNCHANGED aux

\* analysis = generate_alert_analysis(data, snapshot)
Generate ==
    /\ pc = "generate"
    /\ steps' = Append(steps, "generate")
    /\ prompt' = BuildPrompt(data.obj, snapshot, NowET(clock))
    /\ calls' = [calls EXCEPT !.generator = @ + 1, !.llm = @ + 1]
    /\ \E r \in LlmResults :
        /\ outcome' = [outcome EXCEPT !.llm = r.kind, !.llmMsg = r.msg]
        /\ analysis' = GenerateResult(r).lines
        /\ IF GenerateResult(r).raised
           THEN Raise("generate", GenerateResult(r).msg)
           ELSE Continue("generate")
    /\ UNCHANGED <<body, data, idx, snapshot, fetched, mail, served,
                   delivered, clock>>
    /\ UNCHANGED aux

\* send_alert_email(data, analysis, snapshot), then the 200
Dispatch ==
    /\ pc = "dispatch"
    /\ steps' = Append(steps, "dispatch")
    /\ calls' = [calls EXCEPT !.dispatcher = @ + 1, !.smtp = @ + 1]
    /\ \E m \in MailResults :
        /\ outcome' = [outcome EXCEPT !.mail = m.kind, !.mailMsg = m.msg]
        /\ mail' = IF Accepted(m)
                   THEN Message(data.obj, analysis, snapshot, NowET(clock))
                   ELSE mail
        /\ delivered' = IF Accepted(m) THEN delivered + 1 ELSE delivered
        /\ IF SendResult(m).raised
           THEN Raise("dispatch", SendResult(m).msg)
           ELSE Return(200, OkBody)
    /\ UNCHANGED <<body, data, idx, snapshot, fetched, prompt, analysis,
                   served, clock>>
    /\ UNCHANGED aux

\* time passes
Tick ==
    /\ clock < MaxClock
    /\ clock' = clock + 1
    /\ UNCHANGED <<pc, body, data, idx, snapshot, fetched, prompt, analysis,
                   mail, outcome, calls, steps, responses, escaped, served,
                   delivered, acked>>
    /\ UNCHANGED aux

Next ==
    \/ Receive
    \/ Parse
    \/ Auth
    \/ FetchInstrument
    \/ Generate
    \/ Dispatch
    \/ Complete
    \/ Tick

Spec == Init /\ [][Next]_vars

TypeOK ==
    /\ pc \in {"idle", "parse", "auth", "fetch", "generate", "dispatch", "done",
              "blocked"}
    /\ body \in Bodies
    /\ idx \in 1..(Len(tickers) + 1)
    /\ served \in 0..MaxRequests
    /\ delivered \in 0..served
    /\ acked \in 0..served
    /\ clock \in 0..MaxClock

-----------------------------------------------------------------------------
(* Collaborators that never answer *)

\* the outbound call made at a position of the handler
CallAt(step) ==
    CASE step = "fetch" -> "market"
      [] step = "generate" -> "llm"
      [] step = "dispatch" -> "smtp"

\* does the call give up after a bounded time?  history() and the language
\* model client are called with their libraries' default timeouts;
\* smtplib.SMTP_SSL("smtp.gmail.com", 465) is given no timeout and the code
\* sets no default socket timeout, so its socket blocks
HasTimeout(call) == call \in {"market", "llm"}

\* the collaborator of the current step never answers.  Where the call has a
\* timeout this is the step's own outcome "raise" or "error"; where it has
\* none the handler stays in the call
Silent ==
    /\ pc \in {"fetch", "generate", "dispatch"}
    /\ ~HasTimeout(CallAt(pc))
    /\ pc' = "blocked"
    /\ steps' = Append(steps, pc)
    /\ calls' = [calls EXCEPT !.dispatcher = IF pc = "dispatch" THEN @ + 1 ELSE @,
                              !.smtp = IF pc = "dispatch" THEN @ + 1 ELSE @,
                              !.generator = IF pc = "generate" THEN @ + 1 ELSE @,
                              !.llm = IF pc = "generate" THEN @ + 1 ELSE @,
                              !.fetcher = IF pc = "fetch" /\ idx = 1 THEN @ + 1 ELSE @,
                              !.market = IF pc = "fetch" THEN @ + 1 ELSE @]
    /\ UNCHANGED <<body, data, idx, snapshot, fetched, prompt, analysis, mail,
                   outcome, responses, escaped, served, delivered, acked, clock>>
    /\ UNCHANGED aux

\* the steps of the handler's thread
HandlerStep ==
    \/ Parse
    \/ Auth
    \/ FetchInstrument
    \/ Generate
    \/ Dispatch
    \/ Silent

LiveNext ==
    \/ Receive
    \/ Parse
    \/ Auth
    \/ FetchInstrument
    \/ Generate
    \/ Dispatch
    \/ Silent
    \/ Complete
    \/ Tick

\* the thread of a request is always scheduled again
LiveSpec == Init /\ [][LiveNext]_vars /\ WF_vars(HandlerStep)

-----------------------------------------------------------------------------
(* The renderer of send_alert_email, called repeatedly on one alert *)

MaxRenders == 2

\* the renderer's inputs: a payload, an analysis and a snapshot
RenderPayloads ==
    { JObject(f) : f \in UNION { ObjectsOver(S \cup {"secret"}) :
                                   S \in SUBSET (FieldNames \ {"secret"}) } }

RenderSnapshots ==
    { <<>> } \cup { SnapshotStep(<<>>, tickers[1].name,
                                 [kind |-> "series", open |-> 500000, close |-> c]) :
                    c \in Closes }

RenderInit ==
    /\ pc = "render"
    /\ data \in RenderPayloads
    /\ analysis \in AnalysisTexts
    /\ snapshot \in RenderSnapshots
    /\ body = [kind |-> "json", value |-> data]
    /\ idx = 1
    /\ fetched = Names(snapshot)
    /\ prompt = <<>>
    /\ mail = NoMail
    /\ outcome = NoOutcome
    /\ calls = NoCalls
    /\ steps = <<>>
    /\ responses = <<>>
    /\ escaped = FALSE
    /\ served = 0
    /\ delivered = 0
    /\ acked = 0
    /\ clock = 0
    /\ rendered = <<>>
    /\ frames = <<>>
    /\ reqs = <<>>

\* text = f"ALERT: ..." with now_et read from the clock inside the renderer
RenderPlain ==
    /\ pc = "render"
    /\ Len(rendered) < MaxRenders
    /\ rendered' = Append(rendered, PlainText(data.obj, analysis, NowET(clock)))
    /\ UNCHANGED <<pc, body, data, idx, snapshot, fetched, prompt, analysis,
                   mail, outcome, calls, steps, responses, escaped, served,
                   delivered, acked, clock, frames, reqs>>

RenderNext ==
    \/ RenderPlain
    \/ Tick

RenderSpec == RenderInit /\ [][RenderNext]_vars

-----------------------------------------------------------------------------
(* Several requests handled at once: the server runs one invocation of      *)
(* webhook per request, interleaved in any order                            *)

Concurrent == 2

FrameShared(r) == 1

\* where the local variables (data, snapshot, analysis) of invocation r live:
\* in the invocation's own frame; the module's globals are only read
Frame(r) == r

NoFrame == [data |-> NoValue, snapshot |-> <<>>, analysis |-> <<>>]

\* the bodies sent concurrently: two different alerts, a wrong secret, no JSON
ConcBodies ==
    { [kind |-> "json",
       value |-> JObject([k \in {"secret", "ticker"} |->
                            IF k = "secret" THEN WEBHOOK_SECRET ELSE "ES1!"])],
      [kind |-> "json",
       value |-> JObject([k \in {"secret", "level_name"} |->
                            IF k = "secret" THEN WEBHOOK_SECRET ELSE "PDH"])],
      [kind |-> "json", value |-> JObject([k \in {"secret"} |-> "wrong"])],
      [kind |-> "garbage", value |-> NoValue] }

\* what the market source answers to the four queries of one fetch
ConcMarkets ==
    { [i \in 1..Len(tickers) |-> [kind |-> "raise", open |-> 0, close |-> 0]],
      [i \in 1..Len(tickers) |->
          IF i = 1 THEN [kind |-> "series", open |-> 500000, close |-> 505000]
          ELSE [kind |-> "empty", open |-> 0, close |-> 0]],
      [i \in 1..Len(tickers) |-> [kind |-> "series", open |-> 500000, close |-> 495000]] }

\* get_live_snapshot: the loop over the table, from instrument i on
RECURSIVE GetLiveSnapshot(_, _, _)
GetLiveSnapshot(hs, i, snap) ==
    IF i > Len(tickers) THEN snap
    ELSE GetLiveSnapshot(hs, i + 1, SnapshotStep(snap, tickers[i].name, hs[i]))

NewRequest(b) ==
    [pc |-> "parse", body |-> b, gotSnapshot |-> <<>>, gotAnalysis |-> <<>>,
     prompt |-> <<>>, sent |-> NoMail, llm |-> "none", mail |-> "none", status |-> 0]

ConcInit ==
    /\ pc = "idle"
    /\ body = [kind |-> "empty", value |-> NoValue]
    /\ data = NoValue
    /\ idx = 1
    /\ snapshot = <<>>
    /\ fetched = <<>>
    /\ prompt = <<>>
    /\ analysis = <<>>
    /\ mail = NoMail
    /\ outcome = NoOutcome
    /\ calls = NoCalls
    /\ steps = <<>>
    /\ responses = <<>>
    /\ escaped = FALSE
    /\ served = 0
    /\ delivered = 0
    /\ acked = 0
    /\ clock = 0
    /\ rendered = <<>>
    /\ frames = [f \in 1..Concurrent |-> NoFrame]
    /\ reqs \in [1..Concurrent -> { NewRequest(b) : b \in ConcBodies }]

\* the response of invocation r
Respond(r, status) ==
    reqs' = [reqs EXCEPT ![r].pc = "done", ![r].status = status]

ConcParse(r) ==
    /\ reqs[r].pc = "parse"
    /\ IF reqs[r].body.kind # "json"
       THEN Respond(r, 500) /\ UNCHANGED frames
       ELSE /\ frames' = [frames EXCEPT ![Frame(r)].data = reqs[r].body.value]
            /\ IF ~Truthy(reqs[r].body.value)
               THEN Respond(r, 400)
               ELSE reqs' = [reqs EXCEPT ![r].pc = After("parse")]
    /\ UNCHANGED <<handlerVars, rendered>>

ConcAuth(r) ==
    /\ reqs[r].pc = "auth"
    /\ IF frames[Frame(r)].data.t # "object"
       THEN Respond(r, 500)
       ELSE IF ~Authorized(frames[Frame(r)].data.obj)
       THEN Respond(r, 401)
       ELSE reqs' = [reqs EXCEPT ![r].pc = After("auth")]
    /\ UNCHANGED <<handlerVars, rendered, frames>>

ConcFetch(r) ==
    /\ reqs[r].pc = "fetch"
    /\ \E hs \in ConcMarkets :
        /\ frames' = [frames EXCEPT ![Frame(r)].snapshot = GetLiveSnapshot(hs, 1, <<>>)]
        /\ reqs' = [reqs EXCEPT ![r].pc = After("fetch"),
                                ![r].gotSnapshot = GetLiveSnapshot(hs, 1, <<>>)]
    /\ UNCHANGED <<handlerVars, rendered>>

ConcGenerate(r) ==
    /\ reqs[r].pc = "generate"
    /\ \E res \in LlmResults :
        /\ frames' = [frames EXCEPT ![Frame(r)].analysis = GenerateResult(res).lines]
        /\ reqs' = [reqs EXCEPT
              ![r].prompt = BuildPrompt(frames[Frame(r)].data.obj,
                                        frames[Frame(r)].snapshot, NowET(clock)),
              ![r].llm = res.kind,
              ![r].gotAnalysis = res.lines,
              ![r].pc = IF GenerateResult(res).raised THEN "done" ELSE After("generate"),
              ![r].status = IF GenerateResult(res).raised THEN 500 ELSE 0]
    /\ UNCHANGED <<handlerVars, rendered>>

ConcDispatch(r) ==
    /\ reqs[r].pc = "dispatch"
    /\ \E m \in MailResults :
        reqs' = [reqs EXCEPT
              ![r].sent = IF Accepted(m)
                          THEN Message(frames[Frame(r)].data.obj,
                                       frames[Frame(r)].analysis,
                                       frames[Frame(r)].snapshot, NowET(clock))
                          ELSE NoMail,
              ![r].mail = m.kind,
              ![r].pc = "done",
              ![r].status = IF SendResult(m).raised THEN 500 ELSE 200]
    /\ UNCHANGED <<handlerVars, rendered, frames>>

ConcNext ==
    \E r \in 1..Concurrent :
        \/ ConcParse(r)
        \/ ConcAuth(r)
        \/ ConcFetch(r)
        \/ ConcGenerate(r)
        \/ ConcDispatch(r)

ConcSpec == ConcInit /\ [][ConcNext]_vars

-----------------------------------------------------------------------------
(* Properties of the handler *)

Done == pc = "done"

\* the status of the response, 0 while there is none
Status == IF Len(responses) = 1 THEN responses[1].status ELSE 0

\* the request body is a JSON object
IsObject == body.kind = "json" /\ body.value.t = "object"
Payload == body.value.obj

SecretMatches ==
    IsObject /\ "secret" \in DOMAIN Payload /\ Payload["secret"] = WEBHOOK_SECRET

SecretMissing == IsObject /\ "secret" \notin DOMAIN Payload

Range(seq) == { seq[i] : i \in DOMAIN seq }

\* C1 as stated: a request carrying the configured secret is answered 200
\* and send_alert_email has been invoked exactly once for it.
C1_AsStated ==
    (Done /\ SecretMatches) => (Status = 200 /\ calls.dispatcher = 1)

\* C1, amended: a request carrying the configured secret is answered 200,
\* with send_alert_email invoked exactly once, when generate_alert_analysis
\* returns a text and send_alert_email returns without raising; otherwise it
\* is answered 500 and send_alert_email was invoked at most once.
C1_Amended ==
    (Done /\ SecretMatches) =>
        /\ calls.dispatcher <= 1
        /\ IF outcome.llm = "text" /\ outcome.mail = "ok"
           THEN Status = 200 /\ calls.dispatcher = 1
           ELSE Status = 500

C1_Witness ==
    Done /\ SecretMatches /\ Status = 200 /\ calls.dispatcher = 1

\* C2 as stated: a payload whose secret differs from the configured one, or
\* that has no secret, is answered 401, and neither generate_alert_analysis
\* nor send_alert_email is invoked.
C2_AsStated ==
    (Done /\ IsObject /\ ~SecretMatches) =>
        (Status = 401 /\ calls.generator = 0 /\ calls.dispatcher = 0)

\* C2, amended: a payload with at least one field whose secret differs from
\* the configured one, or that has no secret, is answered 401; the payload
\* without any field is answered 400; in both cases neither
\* generate_alert_analysis nor send_alert_email is invoked.
C2_Amended ==
    (Done /\ IsObject /\ ~SecretMatches) =>
        /\ Status = (IF DOMAIN Payload = {} THEN 400 ELSE 401)
        /\ calls.generator = 0
        /\ calls.dispatcher = 0

C2_Witness ==
    /\ Done /\ IsObject /\ "secret" \in DOMAIN Payload
    /\ Payload["secret"] # WEBHOOK_SECRET
    /\ Status = 401

\* C3 as stated: a payload without the secret field is answered 400, and no
\* outbound call (market data, language model, mail) is made for it.
C3_AsStated ==
    (Done /\ SecretMissing) => (Status = 400 /\ calls = NoCalls)

\* C3, amended: a payload without the secret field is answered 401 when it
\* has at least one field and 400 when it has none, and no outbound call
\* (market data, language model, mail) is made for it.
C3_Amended ==
    (Done /\ SecretMissing) =>
        /\ Status = (IF DOMAIN Payload = {} THEN 400 ELSE 401)
        /\ calls = NoCalls

C3_Witness ==
    Done /\ SecretMissing /\ DOMAIN Payload # {} /\ Status = 401

\* C4: a body that is absent, is not JSON, or is not a JSON object is
\* answered 400, and no fetch, generation or dispatch follows.
C4_AsStated ==
    (Done /\ ~IsObject) => (Status = 400 /\ calls = NoCalls)

\* C5: when the language-model call raises, the response is 500 with the
\* error message in its body and the mail transport is not called; a dispatch
\* happens only after the analysis of the same request has been returned.
C5_GenerationFailure ==
    /\ (Done /\ outcome.llm = "error") =>
          /\ Status = 500
          /\ responses[1].body = ErrorBody(outcome.llmMsg)
          /\ calls.smtp = 0
          /\ calls.dispatcher = 0
          /\ mail = NoMail
    /\ (calls.dispatcher > 0) => (outcome.llm = "text" /\ analysis \in AnalysisTexts)

C5_Witness ==
    Done /\ outcome.llm = "error" /\ Status = 500 /\ calls.llm = 1

\* C6: when the mail session raises, the response is 500 with the error
\* message in its body, never 200, and the mail transport is tried at most
\* once in a request.
C6_DeliveryFailure ==
    /\ (Done /\ outcome.mail \notin {"none", "ok"}) =>
          /\ Status = 500
          /\ responses[1].body = ErrorBody(outcome.mailMsg)
    /\ calls.smtp <= 1

C6_Witness ==
    Done /\ outcome.mail = "login" /\ Status = 500 /\ calls.smtp = 1

\* C7: when every instrument query fails, an authenticated request still
\* invokes the generator, with the placeholder in place of the snapshot
\* block of the prompt, and ends in 200 after one dispatch when the
\* language-model call and the mail delivery succeed.
C7_EmptySnapshot ==
    /\ (calls.generator = 1 /\ fetched = <<>>) =>
          /\ snapshot = <<>>
          /\ "  Snapshot unavailable" \in Range(prompt)
    /\ (Done /\ SecretMatches /\ fetched = <<>>) =>
          /\ calls.market = Len(tickers)
          /\ calls.generator = 1
          /\ (outcome.llm = "text" => calls.dispatcher = 1)
          /\ (outcome.llm = "text" /\ outcome.mail = "ok" => Status = 200)

C7_Witness ==
    /\ Done /\ SecretMatches /\ fetched = <<>> /\ calls.market = Len(tickers)
    /\ "  Snapshot unavailable" \in Range(prompt)
    /\ Status = 200

\* position of an instrument in the table
Pos(name) == CHOOSE k \in 1..Len(tickers) : tickers[k].name = name

\* C8: get_live_snapshot never raises; the keys of the snapshot are exactly
\* the instruments whose history was fetched and priced, in the order of the
\* table, whatever happened to the other instruments.
C8_SnapshotKeys ==
    /\ Names(snapshot) = fetched
    /\ \A i, j \in 1..Len(snapshot) :
          i < j => Pos(snapshot[i].name) < Pos(snapshot[j].name)
    /\ (pc = "fetch") => (responses = <<>> /\ ~escaped)
    /\ (calls.fetcher = 1 /\ pc # "fetch") => calls.market = Len(tickers)

C8_Witness ==
    /\ pc = "generate"
    /\ Names(snapshot) = <<"ES", "VIX">>
    /\ calls.market = Len(tickers)

\* C9: every request ends with exactly one JSON response, of status 200,
\* 400, 401 or 500; no exception leaves the handler.
C9_OneJsonResponse ==
    /\ ~escaped
    /\ Len(responses) <= 1
    /\ Done <=> Len(responses) = 1
    /\ Done => /\ responses[1].status \in {200, 400, 401, 500}
               /\ responses[1].json
               /\ (responses[1].status # 200) => DOMAIN responses[1].body = {"error"}

C9_Witness ==
    Done /\ body.kind = "garbage" /\ Status = 500

\* C10: a request answered 400 or 401 has caused no call of the market
\* source, the language model or the mail transport, and the response
\* follows the failing check directly.
C10_NoSideEffect ==
    (Done /\ Status \in {400, 401}) =>
        /\ calls = NoCalls
        /\ snapshot = <<>> /\ prompt = <<>> /\ mail = NoMail
        /\ steps = (IF Status = 400 THEN <<"parse">> ELSE <<"parse", "auth">>)

C10_Witness ==
    Done /\ Status = 401 /\ steps = <<"parse", "auth">> /\ calls = NoCalls

\* C11: there is no deduplication: at any time the number of messages the
\* mail server has accepted equals the number of requests answered 200.
C11_AsStated == delivered = acked

\* C12: rendering is deterministic: all renderings of one (payload,
\* analysis, snapshot) triple have the same plain-text body, whatever the
\* clock did between them.
C12_AsStated ==
    \A i, j \in DOMAIN rendered : rendered[i] = rendered[j]

\* the value of a field of the request's payload, or else a placeholder
Field(k, placeholder) == IF k \in DOMAIN Payload THEN Payload[k] ELSE placeholder

\* C13 as stated: whatever optional fields are missing, the generator and
\* the renderer both put "Unknown", "key level", "hit", "None" in their place
\* and the request ends in 200 when the language model and the mail succeed.
C13_AsStated ==
    /\ (calls.generator = 1) =>
          /\ prompt[4] = Field("ticker", "Unknown")
          /\ prompt[6] = Field("price", "Unknown")
          /\ prompt[8] = Field("level_name", "key level")
          /\ prompt[10] = Field("direction", "hit")
          /\ prompt[12] = Field("note", "None")
    /\ (mail # NoMail) =>
          /\ mail.subject[2] = Field("ticker", "Unknown")
          /\ mail.subject[4] = Field("level_name", "key level")
          /\ mail.text[6] = Field("price", "Unknown")
    /\ (Done /\ SecretMatches /\ outcome.llm = "text" /\ outcome.mail = "ok") =>
          Status = 200

\* C13, amended: the generator puts "Unknown" (ticker, price), "key level",
\* "hit" and "None" in place of missing fields; the renderer puts "Alert"
\* (ticker), "Key Level" and the empty string (price); the request ends in
\* 200 when the language model and the mail succeed.
C13_Amended ==
    /\ (calls.generator = 1) =>
          /\ prompt[4] = Field("ticker", "Unknown")
          /\ prompt[6] = Field("price", "Unknown")
          /\ prompt[8] = Field("level_name", "key level")
          /\ prompt[10] = Field("direction", "hit")
          /\ prompt[12] = Field("note", "None")
    /\ (mail # NoMail) =>
          /\ mail.subject[2] = Field("ticker", "Alert")
          /\ mail.subject[4] = Field("level_name", "Key Level")
          /\ mail.text[2] = Field("ticker", "Alert")
          /\ mail.text[4] = Field("level_name", "Key Level")
          /\ mail.text[6] = Field("price", "")
    /\ (Done /\ SecretMatches /\ outcome.llm = "text" /\ outcome.mail = "ok") =>
          Status = 200

C13_Witness ==
    /\ Done /\ SecretMatches /\ DOMAIN Payload = {"secret"}
    /\ Status = 200
    /\ prompt[4] = "Unknown" /\ prompt[12] = "None"
    /\ mail.subject[2] = "Alert"

Order == <<"parse", "auth", "fetch", "generate", "dispatch">>

IsPrefix(p, q) == Len(p) <= Len(q) /\ \A i \in 1..Len(p) : p[i] = q[i]

\* C14: within a request the steps come in the order secret check, fetch,
\* generation, dispatch, response: the generator runs only after the fetcher
\* returned, the dispatcher only after the generator returned a text, the 200
\* only after the dispatcher returned, and each of the three runs at most once.
C14_StepOrder ==
    /\ IsPrefix(steps, Order)
    /\ calls.fetcher <= 1 /\ calls.generator <= 1 /\ calls.dispatcher <= 1
    /\ (calls.generator > 0) =>
          (calls.fetcher = 1 /\ calls.market = Len(tickers) /\ pc # "fetch")
    /\ (calls.dispatcher > 0) =>
          (calls.generator = 1 /\ outcome.llm = "text" /\ analysis # <<>>)
    /\ (Status = 200) => (calls.dispatcher = 1 /\ outcome.mail = "ok")

C14_Witness ==
    Done /\ Status = 200 /\ steps = Order /\ calls.market = Len(tickers)

\* the response a request gets when it is handled alone, from its own body
\* and from what the language model and the mail transport did for it
StatusAlone(q) ==
    IF q.body.kind # "json" THEN 500
    ELSE IF q.body.value.len = 0 THEN 400
    ELSE IF q.body.value.t # "object" THEN 500
    ELSE IF "secret" \notin DOMAIN q.body.value.obj THEN 401
    ELSE IF q.body.value.obj["secret"] # WEBHOOK_SECRET THEN 401
    ELSE IF q.llm # "text" THEN 500
    ELSE IF q.mail # "ok" THEN 500
    ELSE 200

\* C15: interleaved requests are independent: each one gets the response it
\* would get alone, its prompt is built from its own payload and snapshot,
\* and its email carries its own payload, analysis and snapshot.
C15_Independent ==
    \A r \in DOMAIN reqs :
        /\ (reqs[r].pc = "done") => (reqs[r].status = StatusAlone(reqs[r]))
        /\ (reqs[r].prompt # <<>>) =>
              reqs[r].prompt = BuildPrompt(reqs[r].body.value.obj,
                                           reqs[r].gotSnapshot, NowET(clock))
        /\ (reqs[r].sent # NoMail) =>
              reqs[r].sent = Message(reqs[r].body.value.obj, reqs[r].gotAnalysis,
                                     reqs[r].gotSnapshot, NowET(clock))

\* two different alerts were in flight together and both were mailed
C15_Witness ==
    /\ Len(reqs) >= 2
    /\ reqs[1].body # reqs[2].body
    /\ reqs[1].sent # NoMail /\ reqs[2].sent # NoMail
    /\ reqs[1].sent # reqs[2].sent
    /\ reqs[1].gotSnapshot # reqs[2].gotSnapshot
    /\ reqs[1].status = 200 /\ reqs[2].status = 200

\* C16: every request that has been received eventually gets its response,
\* even when a collaborator never answers.
C16_AsStated == (pc = "parse") ~> (pc = "done")

====
